---- MODULE Spec2Model ----
(***************************************************************************)
(* A model of the deSEC API client (src/src/lib.rs).  The client holds a   *)
(* base URL and a token; every operation builds a path, optionally a body, *)
(* sends one HTTP request and classifies the transport outcome into        *)
(* Result<T, DeSecError>.                                                   *)
(*                                                                         *)
(* An Option<T> is a sequence of length at most one.  A JSON document is a *)
(* record of one fixed shape, so that any two documents can be compared.   *)
(* An HTTP body is the io failure of reading it, a text that is no JSON,   *)
(* or the text of a JSON document.                                         *)
(***************************************************************************)
EXTENDS Integers, Sequences, FiniteSets, TLC

VARIABLES
    pc,       \* "init" | "ready" | "awaiting" | "returned" | "panicked"
    client,   \* Option<DeSecClient>: the value DeSecClient::new returned
    cur,      \* the operation being (or last) invoked, with its arguments
    wire,     \* the requests the current invocation has handed to the transport
    rx,       \* the transport outcomes the current invocation has consumed
    result,   \* what the current invocation returned
    server,   \* the RRsets the remote end stores, by (domain, subname, type)
    step,     \* position of the calling test in its sequence of calls
    ser       \* the last value a caller serialised, and the document it gave

vars == <<pc, client, cur, wire, rx, result, server, step, ser>>

----------------------------------------------------------------------------
(* Option<T> *)

None == <<>>

Some(x) == <<x>>

is_none(opt) == Len(opt) = 0

is_some(opt) == Len(opt) = 1

----------------------------------------------------------------------------
(* serde_json::Value *)

JNull == [t |-> "null", s |-> "", n |-> 0, a |-> <<>>, o |-> <<>>]

JStr(x) == [t |-> "string", s |-> x, n |-> 0, a |-> <<>>, o |-> <<>>]

JNum(x) == [t |-> "number", s |-> "", n |-> x, a |-> <<>>, o |-> <<>>]

JBool(b) == [t |-> "bool", s |-> "", n |-> IF b THEN 1 ELSE 0, a |-> <<>>, o |-> <<>>]

JArr(xs) == [t |-> "array", s |-> "", n |-> 0, a |-> xs, o |-> <<>>]

\* members: a sequence of [k |-> key, v |-> document], in document order
JObj(members) == [t |-> "object", s |-> "", n |-> 0, a |-> <<>>, o |-> members]

Keys(j) == {j.o[i].k : i \in 1..Len(j.o)}

HasKey(j, key) == \E i \in 1..Len(j.o) : j.o[i].k = key

Member(j, key) == j.o[CHOOSE i \in 1..Len(j.o) : j.o[i].k = key].v

----------------------------------------------------------------------------
(* The typed records.  Every field of Domain, DNSSECKeyInfo and            *)
(* ResourceRecordSet is an Option.                                         *)

DefaultDomain ==
    [created |-> None, keys |-> None, minimum_ttl |-> None, name |-> None,
     published |-> None, touched |-> None, zonefile |-> None]

DefaultDNSSECKeyInfo ==
    [dnskey |-> None, ds |-> None, keyflags |-> None, keytype |-> None,
     managed |-> None]

DefaultResourceRecordSet ==
    [created |-> None, domain |-> None, subname |-> None, name |-> None,
     rrset_type |-> None, records |-> None, ttl |-> None, touched |-> None]

U16Max == 65535

----------------------------------------------------------------------------
(* Serialize: #[serde(skip_serializing_if = "Option::is_none")] on every   *)
(* field, #[serde(rename = ...)] on keyflags and rrset_type.               *)

\* variant: no field is ever skipped
never_skip(opt) == FALSE

skip_serializing_if(opt) == is_none(opt)

\* one field of a derived Serialize: nothing when skipped, else the key
\* with the document of the field's value
SerField(key, opt, doc) ==
    IF skip_serializing_if(opt) THEN <<>> ELSE << [k |-> key, v |-> doc] >>

SerStrings(xs) == JArr([i \in 1..Len(xs) |-> JStr(xs[i])])

\* Serialize for Option<T>: null for None, the value's document for Some
Serialize_Option_String(opt) == IF is_none(opt) THEN JNull ELSE JStr(opt[1])

Serialize_Option_Number(opt) == IF is_none(opt) THEN JNull ELSE JNum(opt[1])

Serialize_Option_bool(opt) == IF is_none(opt) THEN JNull ELSE JBool(opt[1])

Serialize_Option_Strings(opt) == IF is_none(opt) THEN JNull ELSE SerStrings(opt[1])

Serialize_DNSSECKeyInfo(key) ==
    JObj(SerField("dnskey", key.dnskey, Serialize_Option_String(key.dnskey))
         \o SerField("ds", key.ds, Serialize_Option_Strings(key.ds))
         \o SerField("flags", key.keyflags, Serialize_Option_Number(key.keyflags))
         \o SerField("keytype", key.keytype, Serialize_Option_String(key.keytype))
         \o SerField("managed", key.managed, Serialize_Option_bool(key.managed)))

SerKeys(ks) == JArr([i \in 1..Len(ks) |-> Serialize_DNSSECKeyInfo(ks[i])])

Serialize_Option_Keys(opt) == IF is_none(opt) THEN JNull ELSE SerKeys(opt[1])

Serialize_Domain(d) ==
    JObj(SerField("created", d.created, Serialize_Option_String(d.created))
         \o SerField("keys", d.keys, Serialize_Option_Keys(d.keys))
         \o SerField("minimum_ttl", d.minimum_ttl, Serialize_Option_Number(d.minimum_ttl))
         \o SerField("name", d.name, Serialize_Option_String(d.name))
         \o SerField("published", d.published, Serialize_Option_String(d.published))
         \o SerField("touched", d.touched, Serialize_Option_String(d.touched))
         \o SerField("zonefile", d.zonefile, Serialize_Option_String(d.zonefile)))

Serialize_ResourceRecordSet(r) ==
    JObj(SerField("created", r.created, Serialize_Option_String(r.created))
         \o SerField("domain", r.domain, Serialize_Option_String(r.domain))
         \o SerField("subname", r.subname, Serialize_Option_String(r.subname))
         \o SerField("name", r.name, Serialize_Option_String(r.name))
         \o SerField("type", r.rrset_type, Serialize_Option_String(r.rrset_type))
         \o SerField("records", r.records, Serialize_Option_Strings(r.records))
         \o SerField("ttl", r.ttl, Serialize_Option_Number(r.ttl))
         \o SerField("touched", r.touched, Serialize_Option_String(r.touched)))

Serialize_ResourceRecordSetList(rs) ==
    JArr([i \in 1..Len(rs) |-> Serialize_ResourceRecordSet(rs[i])])

----------------------------------------------------------------------------
(* Deserialize, as serde derives it: a struct is read from a JSON object   *)
(* (unknown keys ignored, a missing or null Option field is None, a value  *)
(* of the wrong type is an error) or from a JSON array holding exactly its *)
(* fields in declaration order.                                            *)

DOk(v) == [ok |-> TRUE, v |-> v]

DErr == [ok |-> FALSE, v |-> None]

de_String(j) == IF j.t = "string" THEN DOk(j.s) ELSE DErr

de_u64(j) == IF j.t = "number" /\ j.n >= 0 THEN DOk(j.n) ELSE DErr

de_u16(j) == IF j.t = "number" /\ j.n >= 0 /\ j.n <= U16Max THEN DOk(j.n) ELSE DErr

de_bool(j) == IF j.t = "bool" THEN DOk(j.n = 1) ELSE DErr

de_Vec_String(j) ==
    IF j.t = "array" /\ \A i \in 1..Len(j.a) : de_String(j.a[i]).ok
    THEN DOk([i \in 1..Len(j.a) |-> de_String(j.a[i]).v])
    ELSE DErr

\* the field types that hold no struct
de_leaf(ty, j) ==
    CASE ty = "String" -> de_String(j)
      [] ty = "u64" -> de_u64(j)
      [] ty = "u16" -> de_u16(j)
      [] ty = "bool" -> de_bool(j)
      [] ty = "Vec<String>" -> de_Vec_String(j)

\* Option<T> from document j, r being T read from j
de_Option(j, r) ==
    IF j.t = "null" THEN DOk(None)
    ELSE IF r.ok THEN DOk(Some(r.v))
    ELSE DErr

\* field number i of a struct read from document j: its value when j is an
\* object (m) and when j is an array (q)
OptField(j, i, name, key, ty) ==
    [name |-> name,
     m |-> IF HasKey(j, key)
           THEN de_Option(Member(j, key), de_leaf(ty, Member(j, key)))
           ELSE DOk(None),
     q |-> IF i <= Len(j.a) THEN de_Option(j.a[i], de_leaf(ty, j.a[i])) ELSE DErr]

ReqField(j, i, name, key, ty) ==
    [name |-> name,
     m |-> IF HasKey(j, key) THEN de_leaf(ty, Member(j, key)) ELSE DErr,
     q |-> IF i <= Len(j.a) THEN de_leaf(ty, j.a[i]) ELSE DErr]

FieldNames(fs) == {fs[i].name : i \in 1..Len(fs)}

FieldAt(fs, name) == fs[CHOOSE i \in 1..Len(fs) : fs[i].name = name]

de_struct(j, fs) ==
    IF j.t = "object" THEN
        IF \A i \in 1..Len(fs) : fs[i].m.ok
        THEN DOk([name \in FieldNames(fs) |-> FieldAt(fs, name).m.v])
        ELSE DErr
    ELSE IF j.t = "array" THEN
        IF Len(j.a) = Len(fs) /\ \A i \in 1..Len(fs) : fs[i].q.ok
        THEN DOk([name \in FieldNames(fs) |-> FieldAt(fs, name).q.v])
        ELSE DErr
    ELSE DErr

Deserialize_AccountInformation(j) ==
    de_struct(j, << ReqField(j, 1, "created", "created", "String"),
                    ReqField(j, 2, "email", "email", "String"),
                    ReqField(j, 3, "id", "id", "String"),
                    ReqField(j, 4, "limit_domains", "limit_domains", "u64"),
                    ReqField(j, 5, "outreach_preference", "outreach_preference", "bool") >>)

Deserialize_DNSSECKeyInfo(j) ==
    de_struct(j, << OptField(j, 1, "dnskey", "dnskey", "String"),
                    OptField(j, 2, "ds", "ds", "Vec<String>"),
                    OptField(j, 3, "keyflags", "flags", "u16"),
                    OptField(j, 4, "keytype", "keytype", "String"),
                    OptField(j, 5, "managed", "managed", "bool") >>)

de_Vec_DNSSECKeyInfo(j) ==
    IF j.t = "array" /\ \A i \in 1..Len(j.a) : Deserialize_DNSSECKeyInfo(j.a[i]).ok
    THEN DOk([i \in 1..Len(j.a) |-> Deserialize_DNSSECKeyInfo(j.a[i]).v])
    ELSE DErr

\* the field keys: Option<Vec<DNSSECKeyInfo>>, field number 2 of Domain
KeysField(j) ==
    [name |-> "keys",
     m |-> IF HasKey(j, "keys")
           THEN de_Option(Member(j, "keys"), de_Vec_DNSSECKeyInfo(Member(j, "keys")))
           ELSE DOk(None),
     q |-> IF 2 <= Len(j.a) THEN de_Option(j.a[2], de_Vec_DNSSECKeyInfo(j.a[2])) ELSE DErr]

Deserialize_Domain(j) ==
    de_struct(j, << OptField(j, 1, "created", "created", "String"),
                    KeysField(j),
                    OptField(j, 3, "minimum_ttl", "minimum_ttl", "u16"),
                    OptField(j, 4, "name", "name", "String"),
                    OptField(j, 5, "published", "published", "String"),
                    OptField(j, 6, "touched", "touched", "String"),
                    OptField(j, 7, "zonefile", "zonefile", "String") >>)

Deserialize_DomainList(j) ==
    IF j.t = "array" /\ \A i \in 1..Len(j.a) : Deserialize_Domain(j.a[i]).ok
    THEN DOk([i \in 1..Len(j.a) |-> Deserialize_Domain(j.a[i]).v])
    ELSE DErr

Deserialize_ResourceRecordSet(j) ==
    de_struct(j, << OptField(j, 1, "created", "created", "String"),
                    OptField(j, 2, "domain", "domain", "String"),
                    OptField(j, 3, "subname", "subname", "String"),
                    OptField(j, 4, "name", "name", "String"),
                    OptField(j, 5, "rrset_type", "type", "String"),
                    OptField(j, 6, "records", "records", "Vec<String>"),
                    OptField(j, 7, "ttl", "ttl", "u64"),
                    OptField(j, 8, "touched", "touched", "String") >>)

Deserialize_ResourceRecordSetList(j) ==
    IF j.t = "array" /\ \A i \in 1..Len(j.a) : Deserialize_ResourceRecordSet(j.a[i]).ok
    THEN DOk([i \in 1..Len(j.a) |-> Deserialize_ResourceRecordSet(j.a[i]).v])
    ELSE DErr

\* serde_json::Value takes any document as it is
Deserialize_Value(j) == DOk(j)

\* T::deserialize for the type T the caller asks Response::json for
Deserialize(ty, j) ==
    CASE ty = "AccountInformation" -> Deserialize_AccountInformation(j)
      [] ty = "Domain" -> Deserialize_Domain(j)
      [] ty = "DomainList" -> Deserialize_DomainList(j)
      [] ty = "ResourceRecordSet" -> Deserialize_ResourceRecordSet(j)
      [] ty = "ResourceRecordSetList" -> Deserialize_ResourceRecordSetList(j)
      [] ty = "Value" -> Deserialize_Value(j)

----------------------------------------------------------------------------
(* HTTP: bodies, transport outcomes, status classes                        *)

IoErrorBody == [kind |-> "ioerror", text |-> "", json |-> JNull]

TextBody(t) == [kind |-> "text", text |-> t, json |-> JNull]

JsonBody(j) == [kind |-> "json", text |-> "", json |-> j]

\* Result<Response, reqwest::Error> of one send().await
Response(status, body) == [ok |-> TRUE, status |-> status, body |-> body]

TransportError == [ok |-> FALSE, status |-> 0, body |-> IoErrorBody]

OK == 200

CREATED == 201

NO_CONTENT == 204

BAD_REQUEST == 400

NOT_FOUND == 404

is_client_error(status) == status >= 400 /\ status < 500

is_server_error(status) == status >= 500 /\ status < 600

\* reqwest::Error, by what produced it
ReqwestError(cause, status) == [cause |-> cause, status |-> status]

to_string(error) == "reqwest::Error(" \o error.cause \o ")"

\* Response::error_for_status: Err for a 4xx or 5xx status, else the response
error_for_status(response) ==
    IF is_client_error(response.status) \/ is_server_error(response.status)
    THEN [ok |-> FALSE, v |-> ReqwestError("status", response.status)]
    ELSE [ok |-> TRUE, v |-> response]

\* Result::err: the error of an Err, None of an Ok
err(res) == IF res.ok THEN None ELSE Some(res.v)

\* Response::json::<T>: read the body, parse it, read a T from the document
json(response, ty) ==
    IF response.body.kind = "ioerror"
    THEN [ok |-> FALSE, v |-> ReqwestError("body", response.status)]
    ELSE IF response.body.kind = "json" /\ Deserialize(ty, response.body.json).ok
    THEN [ok |-> TRUE, v |-> Deserialize(ty, response.body.json).v]
    ELSE [ok |-> FALSE, v |-> ReqwestError("decode", response.status)]

\* Response::text: the body as it was received
text(response) ==
    IF response.body.kind = "ioerror"
    THEN [ok |-> FALSE, v |-> ReqwestError("body", response.status)]
    ELSE [ok |-> TRUE, v |-> response.body]

----------------------------------------------------------------------------
(* Result<T, DeSecError>; a panic is an outcome beside Ok and Err          *)

Ok(v) == [tag |-> "Ok", val |-> v]

Http(error) == [tag |-> "Http", val |-> error]

HttpBulk(value) == [tag |-> "HttpBulk", val |-> value]

HttpUnexpectedStatus(response) == [tag |-> "HttpUnexpectedStatus", val |-> response]

NotFound(msg) == [tag |-> "NotFound", val |-> msg]

Parser(msg) == [tag |-> "Parser", val |-> msg]

ClientBuilder(msg) == [tag |-> "ClientBuilder", val |-> msg]

Panic == [tag |-> "panic", val |-> "unwrap on a None or Err value"]

NoResult == [tag |-> "none", val |-> ""]

\* .map_err(|error| DeSecError::Parser(format!("<prefix>{}", error)))
map_err_Parser(res, prefix) ==
    IF res.ok THEN Ok(res.v) ELSE Parser(prefix \o to_string(res.v))

\* Err(DeSecError::Http(response.error_for_status().err().unwrap()))
HttpOfStatus(response) ==
    IF is_some(err(error_for_status(response)))
    THEN Http(err(error_for_status(response))[1])
    ELSE Panic

\* variant: the unwrap is reached for every response, whatever its status
CommonArms_unguarded(out) ==
    IF out.ok THEN HttpOfStatus(out)
    ELSE Http(ReqwestError("transport", 0))

\* the three arms every operation ends with, after its own arms
CommonArms(out) ==
    IF out.ok /\ (is_client_error(out.status) \/ is_server_error(out.status))
    THEN HttpOfStatus(out)
    ELSE IF out.ok THEN HttpUnexpectedStatus(out)
    ELSE Http(ReqwestError("transport", 0))

----------------------------------------------------------------------------
(* DeSecClient::new.  A token is a sequence of bytes.                      *)

API_URL == "https://desec.io/api/v1"

\* "Token " as bytes
TokenPrefix == <<84, 111, 107, 101, 110, 32>>

\* http::HeaderValue::from_str: every byte is 32 or more and not DEL, or a tab
HeaderValue_from_str(bytes) ==
    IF \A i \in 1..Len(bytes) : (bytes[i] >= 32 /\ bytes[i] # 127) \/ bytes[i] = 9
    THEN [ok |-> TRUE, v |-> bytes]
    ELSE [ok |-> FALSE, v |-> <<>>]

\* buildOk: whether reqwest::ClientBuilder::build succeeds (TLS set-up)
new(token, buildOk) ==
    IF ~HeaderValue_from_str(TokenPrefix \o token).ok THEN Panic
    ELSE IF ~buildOk THEN ClientBuilder("builder error")
    ELSE Ok([api_url |-> API_URL,
             token |-> token,
             headers |-> [authorization |-> HeaderValue_from_str(TokenPrefix \o token).v,
                          user_agent |-> "rust-desec-client"]])

----------------------------------------------------------------------------
(* The four private helpers: each hands one request to the transport.      *)
(* Their value is the sequence of requests sent.                           *)

Request(self, method, endpoint, content_type, body) ==
    [method |-> method,
     url |-> self.api_url \o endpoint,
     authorization |-> self.headers.authorization,
     user_agent |-> self.headers.user_agent,
     content_type |-> content_type,
     body |-> body]

\* variant: the request is sent a second time
get_resend(self, endpoint) ==
    << Request(self, "GET", endpoint, None, None),
       Request(self, "GET", endpoint, None, None) >>

get(self, endpoint) == << Request(self, "GET", endpoint, None, None) >>

post(self, endpoint, body) ==
    << Request(self, "POST", endpoint, Some("application/json"), Some(body)) >>

patch(self, endpoint, body) ==
    << Request(self, "PATCH", endpoint, Some("application/json"), Some(body)) >>

delete(self, endpoint) == << Request(self, "DELETE", endpoint, None, None) >>

----------------------------------------------------------------------------
(* The public operations.  <op>_send is the request the operation makes,   *)
(* <op> the match on the outcome `out` of that request.                    *)

get_account_info_send(self) == get(self, "/auth/account/")

\* variant: any 2xx is taken for the success status
get_account_info_lenient(out) ==
    IF out.ok /\ out.status >= 200 /\ out.status < 300
    THEN map_err_Parser(json(out, "AccountInformation"), "")
    ELSE CommonArms(out)

get_account_info(out) ==
    IF out.ok /\ out.status = OK
    THEN map_err_Parser(json(out, "AccountInformation"), "")
    ELSE CommonArms(out)

create_domain_send(self, domain) ==
    post(self, "/domains/", TextBody("{\"name\": \"" \o domain \o "\"}"))

\* variant: without the 4xx/5xx arm
create_domain_unexpected(domain, out) ==
    IF out.ok /\ out.status = CREATED
    THEN map_err_Parser(json(out, "Domain"), "")
    ELSE IF out.ok THEN HttpUnexpectedStatus(out)
    ELSE Http(ReqwestError("transport", 0))

create_domain(domain, out) ==
    IF out.ok /\ out.status = CREATED
    THEN map_err_Parser(json(out, "Domain"), "")
    ELSE CommonArms(out)

get_domains_send(self) == get(self, "/domains/")

get_domains(out) ==
    IF out.ok /\ out.status = OK
    THEN map_err_Parser(json(out, "DomainList"), "")
    ELSE CommonArms(out)

get_domain_send(self, domain) == get(self, "/domains/" \o domain \o "/")

get_domain(domain, out) ==
    IF out.ok /\ out.status = OK
    THEN map_err_Parser(json(out, "Domain"), "")
    ELSE CommonArms(out)

delete_domain_send(self, domain) == delete(self, "/domains/" \o domain \o "/")

delete_domain(domain, out) ==
    IF out.ok /\ out.status = NO_CONTENT
    THEN map_err_Parser(text(out), "")
    ELSE CommonArms(out)

get_zonefile_send(self, domain) == get(self, "/domains/" \o domain \o "/zonefile/")

get_zonefile(domain, out) ==
    IF out.ok /\ out.status = OK
    THEN map_err_Parser(text(out), "")
    ELSE CommonArms(out)

create_rrset_send(self, domain, subname, rrset_type, records, ttl) ==
    post(self, "/domains/" \o domain \o "/rrsets/",
         JsonBody(Serialize_ResourceRecordSet(
             [DefaultResourceRecordSet EXCEPT
                 !.domain = Some(domain),
                 !.subname = Some(subname),
                 !.rrset_type = Some(rrset_type),
                 !.records = Some(records),
                 !.ttl = Some(ttl)])))

create_rrset(domain, subname, rrset_type, records, ttl, out) ==
    IF out.ok /\ out.status = CREATED
    THEN map_err_Parser(json(out, "ResourceRecordSet"),
                        "Failed to parse response after creating rrset: ")
    ELSE CommonArms(out)

create_rrset_bulk_send(self, domain, rrsets) ==
    post(self, "/domains/" \o domain \o "/rrsets/",
         JsonBody(Serialize_ResourceRecordSetList(rrsets)))

\* variant: the 400 body is kept as a string
create_rrset_bulk_flat(domain, rrsets, out) ==
    IF out.ok /\ out.status = CREATED THEN Ok("unit")
    ELSE IF out.ok /\ out.status = BAD_REQUEST THEN
        IF text(out).ok THEN HttpBulk(JStr(text(out).v.text)) ELSE Http(text(out).v)
    ELSE CommonArms(out)

create_rrset_bulk(domain, rrsets, out) ==
    IF out.ok /\ out.status = CREATED THEN Ok("unit")
    ELSE IF out.ok /\ out.status = BAD_REQUEST THEN
        \* HttpBulk(response.json().await?): `?` turns the reqwest::Error
        \* into DeSecError::Http through #[from]
        IF json(out, "Value").ok
        THEN HttpBulk(json(out, "Value").v)
        ELSE Http(json(out, "Value").v)
    ELSE CommonArms(out)

get_rrsets_send(self, domain) == get(self, "/domains/" \o domain \o "/rrsets/")

get_rrsets(domain, out) ==
    IF out.ok /\ out.status = OK
    THEN map_err_Parser(json(out, "ResourceRecordSetList"),
                        "Failed to parse rrsets: ")
    ELSE IF out.ok /\ out.status = NOT_FOUND
    THEN NotFound("rrsets for domain " \o domain \o " not found")
    ELSE CommonArms(out)

get_rrset_send(self, domain, subname, rrset_type) ==
    get(self, "/domains/" \o domain \o "/rrsets/" \o subname \o "/" \o rrset_type \o "/")

\* variant: without the NOT_FOUND arm
get_rrset_generic(domain, subname, rrset_type, out) ==
    IF out.ok /\ out.status = OK
    THEN map_err_Parser(json(out, "ResourceRecordSet"),
                        "Failed to parse rrset: ")
    ELSE CommonArms(out)

get_rrset(domain, subname, rrset_type, out) ==
    IF out.ok /\ out.status = OK
    THEN map_err_Parser(json(out, "ResourceRecordSet"),
                        "Failed to parse rrset: ")
    ELSE IF out.ok /\ out.status = NOT_FOUND
    THEN NotFound("rrset " \o subname \o "." \o domain \o " (" \o rrset_type \o ") not found")
    ELSE CommonArms(out)

update_rrset_send(self, domain, subname, rrset_type, rrset_patch) ==
    patch(self, "/domains/" \o domain \o "/rrsets/" \o subname \o "/" \o rrset_type \o "/",
          JsonBody(Serialize_ResourceRecordSet(rrset_patch)))

update_rrset(domain, subname, rrset_type, rrset_patch, out) ==
    IF out.ok /\ out.status = OK
    THEN map_err_Parser(json(out, "ResourceRecordSet"),
                        "Failed to parse response after updating rrset: ")
    ELSE CommonArms(out)

delete_rrset_send(self, domain, subname, rrset_type) ==
    delete(self, "/domains/" \o domain \o "/rrsets/" \o subname \o "/" \o rrset_type \o "/")

\* variant: success expected as 200 instead of 204
delete_rrset_expect_ok(domain, subname, rrset_type, out) ==
    IF out.ok /\ out.status = OK
    THEN map_err_Parser(text(out),
                        "Failed to parse response after deleting rrset: ")
    ELSE CommonArms(out)

delete_rrset(domain, subname, rrset_type, out) ==
    IF out.ok /\ out.status = NO_CONTENT
    THEN map_err_Parser(text(out),
                        "Failed to parse response after deleting rrset: ")
    ELSE CommonArms(out)

----------------------------------------------------------------------------
(* Inputs of the model                                                     *)

MaxTokenLen == 1

MaxBulk == 2

\* tab, line feed, 'a', DEL
Chars == {9, 10, 97, 127}

Tokens == UNION {[1..n -> Chars] : n \in 0..MaxTokenLen}

Domains == {"example.com", "a.test"}

Subnames == {"www", ""}

Types == {"A", "TXT"}

RecordLists == {<<"8.8.8.8">>, <<"8.8.8.8", "8.8.4.4">>}

Ttls == {3600, 60}

Statuses == {100, 200, 201, 202, 204, 301, 400, 401, 403, 404, 500, 503}

OptOf(x) == {None, Some(x)}

\* every ResourceRecordSet whose fields are absent or hold a sample value
RRsetValues ==
    [created : OptOf("2020-01-01T00:00:00Z"), domain : OptOf("example.com"),
     subname : OptOf("www"), name : OptOf("www.example.com."),
     rrset_type : OptOf("A"), records : OptOf(<<"8.8.4.4">>),
     ttl : OptOf(3650), touched : OptOf("2020-01-02T00:00:00Z")]

FullRRset == CHOOSE r \in RRsetValues : \A f \in DOMAIN r : is_some(r[f])

\* patches of the operations under Spec: records and ttl at will, the other
\* fields all absent or all present
Patches ==
    {r \in RRsetValues :
        \/ \A f \in DOMAIN r \ {"records", "ttl"} : is_none(r[f])
        \/ r = FullRRset}

BulkItems ==
    {[DefaultResourceRecordSet EXCEPT !.subname = Some("www"), !.rrset_type = Some("A"),
                                      !.records = Some(<<"8.8.8.8">>), !.ttl = Some(3600)],
     [DefaultResourceRecordSet EXCEPT !.subname = Some("www"), !.ttl = Some(1)]}

BulkLists == UNION {[1..n -> BulkItems] : n \in 0..MaxBulk}

KeyValues ==
    [dnskey : OptOf("257 3 13 abc="), ds : OptOf(<<"1 13 2 ab", "1 13 4 cd">>),
     keyflags : OptOf(257), keytype : OptOf("csk"), managed : OptOf(TRUE)]

FullKey == CHOOSE k \in KeyValues : \A f \in DOMAIN k : is_some(k[f])

DomainValues ==
    [created : OptOf("2020-01-01T00:00:00Z"),
     keys : {None, Some(<<>>), Some(<<FullKey>>), Some(<<DefaultDNSSECKeyInfo, FullKey>>)},
     minimum_ttl : OptOf(3600), name : OptOf("example.com"),
     published : OptOf("2020-01-01T00:00:01Z"), touched : OptOf("2020-01-02T00:00:00Z"),
     zonefile : OptOf("example.com. 3600 IN NS ns1.desec.io.")]

FullDomain ==
    CHOOSE d \in DomainValues : (\A f \in DOMAIN d : is_some(d[f])) /\ d.keys = Some(<<FullKey>>)

AccountDoc ==
    JObj(<< [k |-> "created", v |-> JStr("2020-01-01T00:00:00Z")],
            [k |-> "email", v |-> JStr("a@example.com")],
            [k |-> "id", v |-> JStr("9ab16e5c")],
            [k |-> "limit_domains", v |-> JNum(15)],
            [k |-> "outreach_preference", v |-> JBool(TRUE)] >>)

\* the per-item error array of a rejected bulk request
BulkErrorDoc ==
    JArr(<< JObj(<<>>),
            JObj(<< [k |-> "type", v |-> JArr(<< JStr("This field is required.") >>)] >>) >>)

Documents ==
    {JNull, JObj(<<>>), JArr(<<>>), AccountDoc, BulkErrorDoc,
     JObj(<< [k |-> "email", v |-> JStr("a@example.com")] >>),
     JObj(<< [k |-> "ttl", v |-> JStr("3600")] >>),
     JObj(<< [k |-> "minimum_ttl", v |-> JNum(70000)] >>),
     Serialize_ResourceRecordSet(FullRRset),
     JArr(<< Serialize_ResourceRecordSet(FullRRset) >>),
     Serialize_Domain(FullDomain),
     JArr(<< Serialize_Domain(FullDomain) >>)}

Bodies ==
    {IoErrorBody, TextBody(""), TextBody("<html>Bad Gateway</html>")}
    \cup {JsonBody(j) : j \in Documents}

Outcomes == {TransportError} \cup {Response(st, b) : st \in Statuses, b \in Bodies}

----------------------------------------------------------------------------
(* The state machine: a caller constructs the client, then invokes one     *)
(* operation after another; an invocation sends its request and awaits the *)
(* outcome.                                                                *)

RRKeys == Domains \X Subnames \X Types

EmptyStore == [key \in RRKeys |-> None]

NoStep == [n |-> 0, domain |-> "", subname |-> "", rrset_type |-> "",
           records |-> <<>>, fetched |-> DefaultResourceRecordSet, results |-> <<>>]

NoSer == [type |-> "none", key |-> DefaultDNSSECKeyInfo, domain |-> DefaultDomain,
          rrset |-> DefaultResourceRecordSet, list |-> <<>>, out |-> JNull]

SerKey(v) == [NoSer EXCEPT !.type = "DNSSECKeyInfo", !.key = v,
                           !.out = Serialize_DNSSECKeyInfo(v)]

SerDomain(v) == [NoSer EXCEPT !.type = "Domain", !.domain = v,
                              !.out = Serialize_Domain(v)]

SerRRset(v) == [NoSer EXCEPT !.type = "ResourceRecordSet", !.rrset = v,
                             !.out = Serialize_ResourceRecordSet(v)]

SerList(v) == [NoSer EXCEPT !.type = "ResourceRecordSetList", !.list = v,
                            !.out = Serialize_ResourceRecordSetList(v)]

NoArgs == [domain |-> "", subname |-> "", rrset_type |-> "", records |-> <<>>,
           ttl |-> 0, rrsets |-> <<>>, patch |-> DefaultResourceRecordSet,
           token |-> <<>>, buildOk |-> TRUE]

Init ==
    /\ pc = "init"
    /\ client = None
    /\ cur = [op |-> "none", args |-> NoArgs]
    /\ wire = <<>>
    /\ rx = <<>>
    /\ result = NoResult
    /\ server = EmptyStore
    /\ step = NoStep
    /\ ser = NoSer

New ==
    /\ pc = "init"
    /\ \E token \in Tokens, buildOk \in BOOLEAN :
        /\ cur' = [op |-> "new", args |-> [NoArgs EXCEPT !.token = token, !.buildOk = buildOk]]
        /\ result' = new(token, buildOk)
        /\ client' = IF new(token, buildOk).tag = "Ok" THEN Some(new(token, buildOk).val) ELSE None
        /\ pc' = IF new(token, buildOk).tag = "Ok" THEN "ready"
                 ELSE IF new(token, buildOk).tag = "panic" THEN "panicked"
                 ELSE "init"
    /\ wire' = <<>>
    /\ rx' = <<>>
    /\ UNCHANGED <<server, step, ser>>

\* an invocation up to its await: the request goes out
Call(op, args, reqs) ==
    /\ pc = "ready"
    /\ cur' = [op |-> op, args |-> args]
    /\ wire' = reqs
    /\ rx' = <<>>
    /\ result' = NoResult
    /\ pc' = "awaiting"
    /\ UNCHANGED <<client, server>>

Call_get_account_info ==
    /\ Call("get_account_info", NoArgs, get_account_info_send(client[1]))
    /\ UNCHANGED <<step, ser>>

Call_create_domain ==
    /\ \E d \in Domains :
        Call("create_domain", [NoArgs EXCEPT !.domain = d], create_domain_send(client[1], d))
    /\ UNCHANGED <<step, ser>>

Call_get_domains ==
    /\ Call("get_domains", NoArgs, get_domains_send(client[1]))
    /\ UNCHANGED <<step, ser>>

Call_get_domain ==
    /\ \E d \in Domains :
        Call("get_domain", [NoArgs EXCEPT !.domain = d], get_domain_send(client[1], d))
    /\ UNCHANGED <<step, ser>>

Call_delete_domain ==
    /\ \E d \in Domains :
        Call("delete_domain", [NoArgs EXCEPT !.domain = d], delete_domain_send(client[1], d))
    /\ UNCHANGED <<step, ser>>

Call_get_zonefile ==
    /\ \E d \in Domains :
        Call("get_zonefile", [NoArgs EXCEPT !.domain = d], get_zonefile_send(client[1], d))
    /\ UNCHANGED <<step, ser>>

Call_create_rrset ==
    /\ \E d \in Domains, sn \in Subnames, ty \in Types, rs \in RecordLists, ttl \in Ttls :
        /\ Call("create_rrset",
                [NoArgs EXCEPT !.domain = d, !.subname = sn, !.rrset_type = ty,
                               !.records = rs, !.ttl = ttl],
                create_rrset_send(client[1], d, sn, ty, rs, ttl))
        /\ ser' = SerRRset([DefaultResourceRecordSet EXCEPT
                               !.domain = Some(d), !.subname = Some(sn),
                               !.rrset_type = Some(ty), !.records = Some(rs),
                               !.ttl = Some(ttl)])
    /\ UNCHANGED step

Call_create_rrset_bulk ==
    /\ \E d \in Domains, rrsets \in BulkLists :
        /\ Call("create_rrset_bulk", [NoArgs EXCEPT !.domain = d, !.rrsets = rrsets],
                create_rrset_bulk_send(client[1], d, rrsets))
        /\ ser' = SerList(rrsets)
    /\ UNCHANGED step

Call_get_rrsets ==
    /\ \E d \in Domains :
        Call("get_rrsets", [NoArgs EXCEPT !.domain = d], get_rrsets_send(client[1], d))
    /\ UNCHANGED <<step, ser>>

Call_get_rrset ==
    /\ \E d \in Domains, sn \in Subnames, ty \in Types :
        Call("get_rrset", [NoArgs EXCEPT !.domain = d, !.subname = sn, !.rrset_type = ty],
             get_rrset_send(client[1], d, sn, ty))
    /\ UNCHANGED <<step, ser>>

Call_update_rrset ==
    /\ \E d \in Domains, sn \in Subnames, ty \in Types, p \in Patches :
        /\ Call("update_rrset",
                [NoArgs EXCEPT !.domain = d, !.subname = sn, !.rrset_type = ty, !.patch = p],
                update_rrset_send(client[1], d, sn, ty, p))
        /\ ser' = SerRRset(p)
    /\ UNCHANGED step

Call_delete_rrset ==
    /\ \E d \in Domains, sn \in Subnames, ty \in Types :
        Call("delete_rrset", [NoArgs EXCEPT !.domain = d, !.subname = sn, !.rrset_type = ty],
             delete_rrset_send(client[1], d, sn, ty))
    /\ UNCHANGED <<step, ser>>

\* the match of the invoked operation on the outcome of its request
Dispatch(c, out) ==
    CASE c.op = "get_account_info" -> get_account_info(out)
      [] c.op = "create_domain" -> create_domain(c.args.domain, out)
      [] c.op = "get_domains" -> get_domains(out)
      [] c.op = "get_domain" -> get_domain(c.args.domain, out)
      [] c.op = "delete_domain" -> delete_domain(c.args.domain, out)
      [] c.op = "get_zonefile" -> get_zonefile(c.args.domain, out)
      [] c.op = "create_rrset" ->
            create_rrset(c.args.domain, c.args.subname, c.args.rrset_type,
                         c.args.records, c.args.ttl, out)
      [] c.op = "create_rrset_bulk" -> create_rrset_bulk(c.args.domain, c.args.rrsets, out)
      [] c.op = "get_rrsets" -> get_rrsets(c.args.domain, out)
      [] c.op = "get_rrset" ->
            get_rrset(c.args.domain, c.args.subname, c.args.rrset_type, out)
      [] c.op = "update_rrset" ->
            update_rrset(c.args.domain, c.args.subname, c.args.rrset_type, c.args.patch, out)
      [] c.op = "delete_rrset" ->
            delete_rrset(c.args.domain, c.args.subname, c.args.rrset_type, out)

\* the invocation from its await on: one outcome is taken and matched
Return(out) ==
    /\ rx' = Append(rx, out)
    /\ result' = Dispatch(cur, out)
    /\ pc' = IF Dispatch(cur, out).tag = "panic" THEN "panicked" ELSE "returned"
    /\ UNCHANGED <<client, cur, wire, ser>>

\* the remote end and the network answer as they please
Await ==
    /\ pc = "awaiting"
    /\ \E out \in Outcomes : Return(out)
    /\ UNCHANGED <<server, step>>

\* the caller takes the returned value; nothing of the invocation is left
Finish ==
    /\ pc = "returned"
    /\ pc' = "ready"
    /\ cur' = [op |-> "none", args |-> NoArgs]
    /\ wire' = <<>>
    /\ rx' = <<>>
    /\ result' = NoResult
    /\ ser' = NoSer
    /\ UNCHANGED <<client, server, step>>

Next ==
    \/ New
    \/ Call_get_account_info
    \/ Call_create_domain
    \/ Call_get_domains
    \/ Call_get_domain
    \/ Call_delete_domain
    \/ Call_get_zonefile
    \/ Call_create_rrset
    \/ Call_create_rrset_bulk
    \/ Call_get_rrsets
    \/ Call_get_rrset
    \/ Call_update_rrset
    \/ Call_delete_rrset
    \/ Await
    \/ Finish

Spec == Init /\ [][Next]_vars

----------------------------------------------------------------------------
(* The caller's own use of the derived Serialize (serde_json::to_string on *)
(* a Domain, a DNSSECKeyInfo or a ResourceRecordSet), and update_rrset     *)
(* with any patch.                                                         *)

to_string_Domain ==
    /\ pc = "ready"
    /\ \E d \in DomainValues :
        /\ ser' = SerDomain(d)
        /\ result' = Ok(Serialize_Domain(d))
    /\ cur' = [op |-> "to_string", args |-> NoArgs]
    /\ pc' = "returned"
    /\ UNCHANGED <<client, wire, rx, server, step>>

to_string_DNSSECKeyInfo ==
    /\ pc = "ready"
    /\ \E k \in KeyValues :
        /\ ser' = SerKey(k)
        /\ result' = Ok(Serialize_DNSSECKeyInfo(k))
    /\ cur' = [op |-> "to_string", args |-> NoArgs]
    /\ pc' = "returned"
    /\ UNCHANGED <<client, wire, rx, server, step>>

to_string_ResourceRecordSet ==
    /\ pc = "ready"
    /\ \E r \in RRsetValues :
        /\ ser' = SerRRset(r)
        /\ result' = Ok(Serialize_ResourceRecordSet(r))
    /\ cur' = [op |-> "to_string", args |-> NoArgs]
    /\ pc' = "returned"
    /\ UNCHANGED <<client, wire, rx, server, step>>

Call_update_rrset_any ==
    /\ \E d \in Domains, sn \in Subnames, ty \in Types, p \in RRsetValues :
        /\ Call("update_rrset",
                [NoArgs EXCEPT !.domain = d, !.subname = sn, !.rrset_type = ty, !.patch = p],
                update_rrset_send(client[1], d, sn, ty, p))
        /\ ser' = SerRRset(p)
    /\ UNCHANGED step

SerNext ==
    \/ New
    \/ to_string_Domain
    \/ to_string_DNSSECKeyInfo
    \/ to_string_ResourceRecordSet
    \/ Call_update_rrset_any
    \/ Finish

SerSpec == Init /\ [][SerNext]_vars

----------------------------------------------------------------------------
(* The remote end, for the sequenced test: it keeps at most one RRset per  *)
(* (domain, subname, type) and answers as the provider's API does.         *)

RRsetPath(key) == "/domains/" \o key[1] \o "/rrsets/" \o key[2] \o "/" \o key[3] \o "/"

RRsetsPath(domain) == "/domains/" \o domain \o "/rrsets/"

DetailDoc(msg) == JObj(<< [k |-> "detail", v |-> JStr(msg)] >>)

Stored(key, records, ttl) ==
    [created |-> Some("2020-01-01T00:00:00Z"),
     domain |-> Some(key[1]),
     subname |-> Some(key[2]),
     name |-> Some(key[2] \o "." \o key[1] \o "."),
     rrset_type |-> Some(key[3]),
     records |-> Some(records),
     ttl |-> Some(ttl),
     touched |-> Some("2020-01-01T00:00:00Z")]

Reply(status, body, store) == [out |-> Response(status, body), store |-> store]

ServerRRset(store, req, key) ==
    IF req.method = "DELETE"
    THEN Reply(NO_CONTENT, TextBody(""), [store EXCEPT ![key] = None])
    ELSE IF is_none(store[key])
    THEN Reply(NOT_FOUND, JsonBody(DetailDoc("Not found.")), store)
    ELSE IF req.method = "GET"
    THEN Reply(OK, JsonBody(Serialize_ResourceRecordSet(store[key][1])), store)
    ELSE IF /\ req.method = "PATCH"
            /\ is_some(req.body)
            /\ req.body[1].kind = "json"
            /\ Deserialize_ResourceRecordSet(req.body[1].json).ok
    THEN LET p == Deserialize_ResourceRecordSet(req.body[1].json).v
             upd == [store[key][1] EXCEPT
                        !.records = IF is_some(p.records) THEN p.records ELSE @,
                        !.ttl = IF is_some(p.ttl) THEN p.ttl ELSE @,
                        !.touched = Some("2020-01-02T00:00:00Z")]
         IN Reply(OK, JsonBody(Serialize_ResourceRecordSet(upd)),
                  [store EXCEPT ![key] = Some(upd)])
    ELSE Reply(BAD_REQUEST, JsonBody(DetailDoc("Malformed request.")), store)

ServerCreate(store, req, domain) ==
    IF /\ is_some(req.body)
       /\ req.body[1].kind = "json"
       /\ Deserialize_ResourceRecordSet(req.body[1].json).ok
    THEN LET r == Deserialize_ResourceRecordSet(req.body[1].json).v IN
         IF /\ is_some(r.subname) /\ is_some(r.rrset_type)
            /\ is_some(r.records) /\ is_some(r.ttl)
            /\ <<domain, r.subname[1], r.rrset_type[1]>> \in RRKeys
            /\ is_none(store[<<domain, r.subname[1], r.rrset_type[1]>>])
         THEN LET key == <<domain, r.subname[1], r.rrset_type[1]>>
                  made == Stored(key, r.records[1], r.ttl[1])
              IN Reply(CREATED, JsonBody(Serialize_ResourceRecordSet(made)),
                       [store EXCEPT ![key] = Some(made)])
         ELSE Reply(BAD_REQUEST, JsonBody(JArr(<< DetailDoc("Invalid RRset.") >>)), store)
    ELSE Reply(BAD_REQUEST, JsonBody(DetailDoc("Malformed request.")), store)

ServerHandle(store, req) ==
    IF \E key \in RRKeys : req.url = API_URL \o RRsetPath(key)
    THEN ServerRRset(store, req, CHOOSE key \in RRKeys : req.url = API_URL \o RRsetPath(key))
    ELSE IF req.method = "POST" /\ \E d \in Domains : req.url = API_URL \o RRsetsPath(d)
    THEN ServerCreate(store, req, CHOOSE d \in Domains : req.url = API_URL \o RRsetsPath(d))
    ELSE Reply(NOT_FOUND, JsonBody(DetailDoc("Not found.")), store)

----------------------------------------------------------------------------
(* The sequenced test create_update_delete_rrset: clear the RRset if it    *)
(* exists (steps 0, 1), then create (2), fetch (3), update (4), fetch (5), *)
(* delete (6), fetch (7).  unwrap and assert! end the test by a panic.     *)

NewTtl == 3650

InitialStores ==
    {EmptyStore}
    \cup {[EmptyStore EXCEPT ![key] = Some(Stored(key, <<"1.1.1.1">>, 60))] : key \in RRKeys}

ScenarioInit ==
    /\ pc = "init"
    /\ client = None
    /\ cur = [op |-> "none", args |-> NoArgs]
    /\ wire = <<>>
    /\ rx = <<>>
    /\ result = NoResult
    /\ ser = NoSer
    /\ server \in InitialStores
    /\ \E key \in RRKeys, rs \in RecordLists :
        step = [NoStep EXCEPT !.domain = key[1], !.subname = key[2],
                              !.rrset_type = key[3], !.records = rs]

\* setup(): DeSecClient::new(key).unwrap()
Setup ==
    /\ pc = "init"
    /\ \E token \in Tokens, buildOk \in BOOLEAN :
        /\ cur' = [op |-> "new", args |-> [NoArgs EXCEPT !.token = token, !.buildOk = buildOk]]
        /\ result' = new(token, buildOk)
        /\ client' = IF new(token, buildOk).tag = "Ok" THEN Some(new(token, buildOk).val) ELSE None
        /\ pc' = IF new(token, buildOk).tag = "Ok" THEN "ready" ELSE "panicked"
    /\ UNCHANGED <<wire, rx, server, step, ser>>

StepArgs == [NoArgs EXCEPT !.domain = step.domain, !.subname = step.subname,
                           !.rrset_type = step.rrset_type]

Test_get_rrset ==
    /\ step.n \in {0, 3, 5, 7}
    /\ Call("get_rrset", StepArgs,
            get_rrset_send(client[1], step.domain, step.subname, step.rrset_type))
    /\ UNCHANGED <<step, ser>>

Test_delete_rrset ==
    /\ step.n \in {1, 6}
    /\ Call("delete_rrset", StepArgs,
            delete_rrset_send(client[1], step.domain, step.subname, step.rrset_type))
    /\ UNCHANGED <<step, ser>>

Test_create_rrset ==
    /\ step.n = 2
    /\ Call("create_rrset", [StepArgs EXCEPT !.records = step.records, !.ttl = 3600],
            create_rrset_send(client[1], step.domain, step.subname, step.rrset_type,
                              step.records, 3600))
    /\ ser' = SerRRset([DefaultResourceRecordSet EXCEPT
                           !.domain = Some(step.domain), !.subname = Some(step.subname),
                           !.rrset_type = Some(step.rrset_type),
                           !.records = Some(step.records), !.ttl = Some(3600)])
    /\ UNCHANGED step

\* the patch: the fetched RRset with its ttl (and, in the test, its records)
\* replaced, or nothing but the new ttl
Test_update_rrset ==
    /\ step.n = 4
    /\ \E p \in {[step.fetched EXCEPT !.ttl = Some(NewTtl)],
                 [step.fetched EXCEPT !.ttl = Some(NewTtl), !.records = Some(<<"8.8.4.4">>)],
                 [DefaultResourceRecordSet EXCEPT !.ttl = Some(NewTtl)]} :
        /\ Call("update_rrset", [StepArgs EXCEPT !.patch = p],
                update_rrset_send(client[1], step.domain, step.subname, step.rrset_type, p))
        /\ ser' = SerRRset(p)
    /\ UNCHANGED step

ServerReply ==
    /\ pc = "awaiting"
    /\ Return(ServerHandle(server, wire[Len(wire)]).out)
    /\ server' = ServerHandle(server, wire[Len(wire)]).store
    /\ UNCHANGED step

\* the test looks at the returned value and goes on, or panics
Test_check ==
    /\ pc = "returned"
    /\ step' =
        IF step.n = 0 THEN [step EXCEPT !.n = IF result.tag = "Ok" THEN 1 ELSE 2]
        ELSE IF step.n = 1 THEN [step EXCEPT !.n = 2]
        ELSE [step EXCEPT !.n = @ + 1,
                          !.results = Append(@, result),
                          !.fetched = IF step.n = 3 /\ result.tag = "Ok" THEN result.val ELSE @]
    /\ pc' = IF \/ step.n = 0 /\ result.tag \notin {"Ok", "NotFound"}
                \/ step.n \in 1..6 /\ result.tag # "Ok"
             THEN "panicked" ELSE "ready"
    /\ cur' = [op |-> "none", args |-> NoArgs]
    /\ wire' = <<>>
    /\ rx' = <<>>
    /\ result' = NoResult
    /\ ser' = NoSer
    /\ UNCHANGED <<client, server>>

ScenarioNext ==
    \/ Setup
    \/ Test_get_rrset
    \/ Test_delete_rrset
    \/ Test_create_rrset
    \/ Test_update_rrset
    \/ ServerReply
    \/ Test_check

ScenarioSpec == ScenarioInit /\ [][ScenarioNext]_vars

----------------------------------------------------------------------------
(* Properties                                                              *)

\* the invocation in `cur` has consumed the outcome of its request
Returned == cur.op \notin {"none", "new", "to_string"} /\ Len(rx) = 1

\* ... and that outcome is a response with this status, to one of these operations
Answered(ops, status) ==
    Returned /\ cur.op \in ops /\ rx[1].ok /\ rx[1].status = status

\* C1: a 404 answer to get_rrset or get_rrsets makes the operation return
\* NotFound (not Http, not HttpUnexpectedStatus).
C1_NotFoundOnRRsets ==
    Answered({"get_rrset", "get_rrsets"}, NOT_FOUND) => result.tag = "NotFound"

C1_Witness ==
    /\ Answered({"get_rrset"}, NOT_FOUND)
    /\ result = NotFound("rrset www.example.com (A) not found")

\* C2: a 404 answer to get_domain, delete_domain or get_zonefile makes the
\* operation return NotFound, not the generic Http error.
C2_NotFoundOnDomains ==
    Answered({"get_domain", "delete_domain", "get_zonefile"}, NOT_FOUND)
        => result.tag = "NotFound"

\* C3: new(token) with a token that cannot be encoded as a header value
\* returns the ClientBuilder error: no panic, no client, no request.
C3_BadTokenIsAnError ==
    (cur.op = "new" /\ ~HeaderValue_from_str(TokenPrefix \o cur.args.token).ok)
        => /\ result.tag = "ClientBuilder"
           /\ pc # "panicked"
           /\ client = None
           /\ wire = <<>>

\* the statuses the operation's row of the status table names: its success
\* status and its named error mappings ("non-2xx" names every status that
\* is not 2xx)
Listed(op, status) ==
    CASE op = "get_account_info" -> status = 200 \/ status < 200 \/ status >= 300
      [] op = "create_domain" -> status \in {201, 400, 403}
      [] op = "get_domains" -> status = 200
      [] op = "get_domain" -> status \in {200, 404}
      [] op = "delete_domain" -> status \in {204, 404}
      [] op = "get_zonefile" -> status \in {200, 404}
      [] op = "create_rrset" -> status \in {201, 400}
      [] op = "create_rrset_bulk" -> status \in {201, 400}
      [] op = "get_rrsets" -> status \in {200, 404}
      [] op = "get_rrset" -> status \in {200, 404}
      [] op = "update_rrset" -> status \in {200, 400}
      [] op = "delete_rrset" -> status = 204 \/ status < 200 \/ status >= 300
      [] OTHER -> TRUE

Unlisted == Returned /\ rx[1].ok /\ ~Listed(cur.op, rx[1].status)

\* C4 (as claimed): every status the operation's row does not list makes
\* the operation return HttpUnexpectedStatus carrying the response.
C4_UnlistedIsUnexpected ==
    Unlisted => result.tag = "HttpUnexpectedStatus" /\ result.val = rx[1]

\* C4 (amended): a status the operation's row does not list never gives a
\* success value; if it is a 4xx or 5xx the operation returns the Http
\* error of that status, otherwise HttpUnexpectedStatus carrying the response.
C4_UnlistedIsHttpOrUnexpected ==
    Unlisted =>
        IF is_client_error(rx[1].status) \/ is_server_error(rx[1].status)
        THEN result.tag = "Http" /\ result.val = ReqwestError("status", rx[1].status)
        ELSE result.tag = "HttpUnexpectedStatus" /\ result.val = rx[1]

C4_Witness ==
    /\ Unlisted
    /\ cur.op = "get_domains"
    /\ rx[1].status = 503
    /\ result.tag = "Http"

\* C5 (as claimed): create_domain returns BadRequest with the raw body on
\* a 400 and DomainLimit on a 403.
C5_BadRequestAndDomainLimit ==
    /\ Answered({"create_domain"}, 400)
           => result.tag = "BadRequest" /\ result.val = rx[1].body
    /\ Answered({"create_domain"}, 403) => result.tag = "DomainLimit"

\* C5 (amended): create_domain returns the Http error of the status on a
\* 400 and on a 403; it neither succeeds nor panics.
C5_HttpOn400And403 ==
    \A status \in {400, 403} :
        Answered({"create_domain"}, status)
            => /\ result.tag = "Http"
               /\ result.val = ReqwestError("status", status)
               /\ pc # "panicked"

C5_Witness ==
    /\ Answered({"create_domain"}, 403)
    /\ cur.args.domain = "example.com"
    /\ result = Http(ReqwestError("status", 403))

\* C6: a 400 answer to create_rrset_bulk returns HttpBulk holding the JSON
\* document of the response body as it is; a 201 answer returns unit.
C6_BulkRejection ==
    /\ (Answered({"create_rrset_bulk"}, BAD_REQUEST) /\ rx[1].body.kind = "json")
           => result.tag = "HttpBulk" /\ result.val = rx[1].body.json
    /\ Answered({"create_rrset_bulk"}, CREATED) => result = Ok("unit")

C6_Witness ==
    /\ Answered({"create_rrset_bulk"}, BAD_REQUEST)
    /\ Len(cur.args.rrsets) = 2
    /\ result.tag = "HttpBulk"
    /\ result.val = BulkErrorDoc

\* whether the body decodes into what the operation reads from it
Decodes(op, response) ==
    CASE op = "get_account_info" -> json(response, "AccountInformation").ok
      [] op \in {"create_domain", "get_domain"} -> json(response, "Domain").ok
      [] op = "get_domains" -> json(response, "DomainList").ok
      [] op \in {"create_rrset", "get_rrset", "update_rrset"} ->
            json(response, "ResourceRecordSet").ok
      [] op = "get_rrsets" -> json(response, "ResourceRecordSetList").ok
      [] op = "create_rrset_bulk" -> json(response, "Value").ok

\* the status on which the operation decodes the body as JSON
DecodedStatus(op) ==
    CASE op \in {"get_account_info", "get_domains", "get_domain", "get_rrsets",
                 "get_rrset", "update_rrset"} -> OK
      [] op \in {"create_domain", "create_rrset"} -> CREATED
      [] op = "create_rrset_bulk" -> BAD_REQUEST

JsonOps == {"get_account_info", "create_domain", "get_domains", "get_domain",
            "create_rrset", "create_rrset_bulk", "get_rrsets", "get_rrset",
            "update_rrset"}

\* C7: in every operation that decodes a body as JSON (the 400 body of
\* create_rrset_bulk too), a body that does not decode gives the Parser error.
C7_ParserOnUndecodable ==
    (/\ Returned
     /\ cur.op \in JsonOps
     /\ rx[1].ok
     /\ rx[1].status = DecodedStatus(cur.op)
     /\ ~Decodes(cur.op, rx[1]))
        => result.tag = "Parser"

\* what the i-th call of the sequence create, get, update, get, delete, get
\* is to return
Expected(i, res) ==
    CASE i = 1 -> /\ res.tag = "Ok"
                  /\ res.val.domain = Some(step.domain)
                  /\ res.val.records = Some(step.records)
      [] i = 2 -> res.tag = "Ok" /\ res.val.records = Some(step.records)
      [] i = 3 -> res.tag = "Ok"
      [] i = 4 -> res.tag = "Ok" /\ res.val.ttl = Some(NewTtl)
      [] i = 5 -> res.tag = "Ok"
      [] i = 6 -> res.tag = "NotFound"

\* C8: against a server keeping at most one RRset per (domain, subname,
\* type), create_rrset(.., ttl 3600), get_rrset, update_rrset(ttl 3650),
\* get_rrset, delete_rrset, get_rrset return in order: Ok echoing domain
\* and records, Ok with the same records, Ok, Ok with ttl 3650, Ok, NotFound;
\* the sequence is never cut short.
C8_CreateUpdateDelete ==
    /\ \A i \in 1..Len(step.results) : Expected(i, step.results[i])
    /\ (pc = "panicked" => cur.op = "new")

C8_Witness ==
    /\ step.n = 8
    /\ Len(step.results) = 6
    /\ step.results[4].val.ttl = Some(NewTtl)
    /\ step.results[6].tag = "NotFound"

\* the fields of a record that are set
SetFields(v) == {f \in DOMAIN v : is_some(v[f])}

\* the key a field is written under
JsonName(f) ==
    CASE f = "rrset_type" -> "type"
      [] f = "keyflags" -> "flags"
      [] OTHER -> f

\* doc is an object with one member per set field of v, no other member
\* and no null
ExactKeys(doc, v) ==
    /\ doc.t = "object"
    /\ Keys(doc) = {JsonName(f) : f \in SetFields(v)}
    /\ Len(doc.o) = Cardinality(SetFields(v))
    /\ \A i \in 1..Len(doc.o) : doc.o[i].v.t # "null"

\* C9: the serialized body of a Domain, DNSSECKeyInfo or ResourceRecordSet
\* has a key for exactly the fields that are set, and no null; so the body
\* update_rrset sends for a patch with only records and ttl set holds only
\* records and ttl.
C9_AbsentFieldsOmitted ==
    /\ ser.type = "ResourceRecordSet" => ExactKeys(ser.out, ser.rrset)
    /\ ser.type = "DNSSECKeyInfo" => ExactKeys(ser.out, ser.key)
    /\ ser.type = "Domain" =>
        /\ ExactKeys(ser.out, ser.domain)
        /\ is_some(ser.domain.keys) =>
            /\ Member(ser.out, "keys").t = "array"
            /\ Len(Member(ser.out, "keys").a) = Len(ser.domain.keys[1])
            /\ \A i \in 1..Len(ser.domain.keys[1]) :
                ExactKeys(Member(ser.out, "keys").a[i], ser.domain.keys[1][i])
    /\ (pc = "awaiting" /\ cur.op = "update_rrset") =>
        /\ Len(wire) = 1
        /\ is_some(wire[1].body)
        /\ wire[1].body[1].kind = "json"
        /\ ExactKeys(wire[1].body[1].json, cur.args.patch)
        /\ SetFields(cur.args.patch) = {"records", "ttl"}
               => Keys(wire[1].body[1].json) = {"records", "ttl"}

C9_Witness ==
    /\ pc = "awaiting"
    /\ cur.op = "update_rrset"
    /\ SetFields(cur.args.patch) = {"records", "ttl"}
    /\ wire[1].method = "PATCH"
    /\ Keys(wire[1].body[1].json) = {"records", "ttl"}

\* C10: an invocation of a client operation hands exactly one request to
\* the transport and consumes exactly one outcome: while it awaits, one
\* request is out and nothing is consumed; once it has returned, still one
\* request has been sent, one outcome consumed, and a result is there.
C10_OneExchange ==
    /\ pc = "awaiting" => Len(wire) = 1 /\ Len(rx) = 0 /\ result = NoResult
    /\ (pc \in {"returned", "panicked"} /\ cur.op \notin {"none", "new", "to_string"})
           => Len(wire) = 1 /\ Len(rx) = 1 /\ result.tag # "none"

C10_Witness ==
    /\ pc = "returned"
    /\ cur.op = "get_zonefile"
    /\ Len(wire) = 1
    /\ Len(rx) = 1
    /\ ~rx[1].ok
    /\ result.tag = "Http"

\* C11: whatever the transport outcome and the response status (1xx to
\* 5xx), an invocation of an operation returns an Ok or an Err value and
\* never panics; the unwrap of error_for_status().err() is reached only on
\* a 4xx or 5xx status, where the error is there and carries that status.
C11_NoPanic ==
    /\ cur.op \notin {"none", "new"} => pc # "panicked" /\ result.tag # "panic"
    /\ Returned =>
        /\ result.tag \in {"Ok", "Http", "HttpBulk", "HttpUnexpectedStatus",
                           "NotFound", "Parser"}
        /\ (result.tag = "Http" /\ result.val.cause = "status") =>
            /\ rx[1].ok
            /\ is_client_error(rx[1].status) \/ is_server_error(rx[1].status)
            /\ is_some(err(error_for_status(rx[1])))
            /\ result.val.status = rx[1].status
        /\ (rx[1].ok /\ rx[1].status \in {100, 301}) => result.tag = "HttpUnexpectedStatus"

C11_Witness ==
    /\ Returned
    /\ cur.op = "delete_domain"
    /\ rx[1].ok
    /\ rx[1].status = 500
    /\ pc = "returned"
    /\ result = Http(ReqwestError("status", 500))

====
